---- MODULE Spec2Model ----
(***************************************************************************)
(* Adaptive Python Assessment: the session record (models/session.py), the *)
(* HTTP handlers and the cleanup sweep (app.py), and the adaptive engine   *)
(* (engine.adaptive_engine: next_question, score_response), whose source   *)
(* is not in the tree and is modelled from spec.md sections 4.1-4.3.       *)
(*                                                                         *)
(* Scores are fixed-point: accuracy and explanation_score in tenths        *)
(* (0..10), final_score in hundredths (0..100).  Time is counted in ticks  *)
(* of two hours.                                                           *)
(***************************************************************************)
EXTENDS Integers, Sequences, FiniteSets, TLC

\* ------------------------------------------------------------------ bounds
MaxAnswers  == 5      \* evaluations the judge delivers to unfinished sessions
MaxTime     == 1      \* ticks the clock may advance

\* ------------------------------------------------------- program constants
MAX_QUESTIONS == 15
MIN_QUESTIONS == 5
EXPIRY_HOURS  == 1

\* configuration of the engine (spec.md 4.1, 4.2, 9: values are configuration)
MIN_LEVEL      == 1
MAX_BLOOM      == 3
MAX_DIFFICULTY == 2
ACC_WEIGHT     == 7
EXP_WEIGHT     == 3
HIGH_THRESHOLD == 80
LOW_THRESHOLD  == 50
MISCONCEPTION_THRESHOLD == 5

\* the worker threads that run answer(), and the uuid4 values start() draws:
\* one session is followed, sessions share nothing but the SESSIONS dict
Threads == {1, 2}
Uuids   == {1}

None == "None"

\* the absent question (Python None) and the absent summary
NoQuestion == [bloom_level |-> 0, difficulty |-> 0]
NoSummary  == [final_score |-> <<0, 0>>, average_accuracy |-> <<0, 0>>,
               average_explanation |-> <<0, 0>>, responses |-> <<>>]

\* what the external judge can answer: high, middle and low band
JudgeOutputs ==
    { [accuracy |-> 10, explanation_score |-> 10, misconception |-> None],
      [accuracy |-> 10, explanation_score |-> 0,  misconception |-> None],
      [accuracy |-> 0,  explanation_score |-> 0,  misconception |-> "off_by_one"] }

\* max_questions arguments given to the constructor: both ends of the allowed
\* range and their outer neighbours
QuestionArgs == {MIN_QUESTIONS - 1, MIN_QUESTIONS, MAX_QUESTIONS, MAX_QUESTIONS + 1}

VARIABLES
    sess,       \* the SessionState objects ever constructed, by session id
    SESSIONS,   \* ids registered in the SESSIONS dict
    now,        \* datetime.now(), in ticks
    pc,         \* per worker thread: position inside answer()
    req,        \* per worker thread: the request's session_id
    resp,       \* the HTTP response sent by the last step (NoResponse: none)
    sweep,      \* the cleanup thread: "sleep" or "delete", with its expired list
    workers,    \* the worker threads the deployment gives to answer() requests
    answered    \* per session: questions actually answered (judge evaluations accepted)

vars == <<sess, SESSIONS, now, pc, req, resp, sweep, workers, answered>>

\* ------------------------------------------------------------ session.py
\* reset() with the counter starting one too high
reset_counter_two(max_questions, t) ==
    [ max_questions     |-> max_questions,
      bloom_level       |-> 1,
      difficulty        |-> 1,
      question_number   |-> 2,
      current_question  |-> NoQuestion,
      finished          |-> FALSE,
      history           |-> <<>>,
      last_misconception |-> None,
      last_activity     |-> t ]

\* reset() with the counter starting at 0
reset_counter_zero(max_questions, t) ==
    [reset_counter_two(max_questions, t) EXCEPT !.question_number = 0]

\* reset() with the levels starting at 0
reset_level_zero(max_questions, t) ==
    [reset_counter_two(max_questions, t) EXCEPT
        !.question_number = 1, !.bloom_level = 0, !.difficulty = 0]

reset(max_questions, t) ==
    [ max_questions     |-> max_questions,
      bloom_level       |-> 1,
      difficulty        |-> 1,
      question_number   |-> 1,
      current_question  |-> NoQuestion,
      finished          |-> FALSE,
      history           |-> <<>>,
      last_misconception |-> None,
      last_activity     |-> t ]

\* the range check with strict comparisons
ValidMaxQuestions_strict(max_questions) ==
    MIN_QUESTIONS < max_questions /\ max_questions < MAX_QUESTIONS

\* SessionState.__init__: the range check, then reset()
ValidMaxQuestions(max_questions) ==
    MIN_QUESTIONS <= max_questions /\ max_questions <= MAX_QUESTIONS

\* record_evaluation() that puts the new record in front
record_evaluation_prepend(s, e, t) ==
    [s EXCEPT !.history = <<e>> \o @, !.last_activity = t]

\* record_evaluation() that refreshes last_activity and appends nothing
record_evaluation_no_append(s, e, t) ==
    [s EXCEPT !.last_activity = t]

record_evaluation(s, e, t) ==
    [s EXCEPT !.history = Append(@, e), !.last_activity = t]

RECURSIVE SumField(_, _)
SumField(h, f) == IF h = <<>> THEN 0 ELSE h[1][f] + SumField(Tail(h), f)

\* summary() without the test of an empty history
summary_no_guard(s) ==
    [final_score         |-> <<SumField(s.history, "final_score"), Len(s.history)>>,
     average_accuracy    |-> <<SumField(s.history, "accuracy"), Len(s.history)>>,
     average_explanation |-> <<SumField(s.history, "explanation_score"), Len(s.history)>>,
     responses           |-> s.history]

\* summary() averaging all but the last record
summary_drops_last(s) ==
    IF s.history = <<>>
    THEN [final_score |-> <<0, 1>>, average_accuracy |-> <<0, 1>>,
          average_explanation |-> <<0, 1>>, responses |-> <<>>]
    ELSE LET h == SubSeq(s.history, 1, Len(s.history) - 1)
         IN  [final_score         |-> <<SumField(h, "final_score"), Len(s.history)>>,
              average_accuracy    |-> <<SumField(h, "accuracy"), Len(s.history)>>,
              average_explanation |-> <<SumField(h, "explanation_score"), Len(s.history)>>,
              responses           |-> s.history]

\* summary(): a mean is the pair <<sum, count>> (the quotient sum / count);
\* the literal 0.0 of the empty case is <<0, 1>>, no quotient by len() = 0
summary(s) ==
    IF s.history = <<>>
    THEN [final_score |-> <<0, 1>>, average_accuracy |-> <<0, 1>>,
          average_explanation |-> <<0, 1>>, responses |-> <<>>]
    ELSE [final_score         |-> <<SumField(s.history, "final_score"), Len(s.history)>>,
          average_accuracy    |-> <<SumField(s.history, "accuracy"), Len(s.history)>>,
          average_explanation |-> <<SumField(s.history, "explanation_score"), Len(s.history)>>,
          responses           |-> s.history]

\* ------------------------------------------- engine (spec.md 4.1 - 4.3)
\* Evaluation Aggregator: the judge's sub-scores and their weighted combination
Evaluate(j) ==
    [ accuracy          |-> j.accuracy,
      explanation_score |-> j.explanation_score,
      final_score       |-> ACC_WEIGHT * j.accuracy + EXP_WEIGHT * j.explanation_score,
      misconception     |-> IF j.accuracy < MISCONCEPTION_THRESHOLD
                            THEN j.misconception ELSE None ]

\* the policy raising bloom_level before difficulty saturates
advance_bloom_first(bloom_level, difficulty, final_score) ==
    IF final_score > HIGH_THRESHOLD
    THEN IF bloom_level < MAX_BLOOM
         THEN [bloom_level |-> bloom_level + 1, difficulty |-> difficulty]
         ELSE [bloom_level |-> bloom_level,
               difficulty  |-> IF difficulty < MAX_DIFFICULTY THEN difficulty + 1
                               ELSE difficulty]
    ELSE IF final_score < LOW_THRESHOLD
    THEN [bloom_level |-> bloom_level,
          difficulty  |-> IF difficulty > MIN_LEVEL THEN difficulty - 1 ELSE difficulty]
    ELSE [bloom_level |-> bloom_level, difficulty |-> difficulty]

\* the policy lowering bloom_level once difficulty is at its floor
advance_low_drops_bloom(bloom_level, difficulty, final_score) ==
    IF final_score > HIGH_THRESHOLD
    THEN IF difficulty < MAX_DIFFICULTY
         THEN [bloom_level |-> bloom_level, difficulty |-> difficulty + 1]
         ELSE [bloom_level |-> IF bloom_level < MAX_BLOOM THEN bloom_level + 1
                               ELSE bloom_level,
               difficulty |-> difficulty]
    ELSE IF final_score < LOW_THRESHOLD
    THEN IF difficulty > MIN_LEVEL
         THEN [bloom_level |-> bloom_level, difficulty |-> difficulty - 1]
         ELSE [bloom_level |-> IF bloom_level > MIN_LEVEL THEN bloom_level - 1
                               ELSE bloom_level,
               difficulty |-> difficulty]
    ELSE [bloom_level |-> bloom_level, difficulty |-> difficulty]

\* the policy raising difficulty on a middle-band score as well
advance_middle_raises(bloom_level, difficulty, final_score) ==
    IF final_score >= LOW_THRESHOLD
    THEN IF difficulty < MAX_DIFFICULTY
         THEN [bloom_level |-> bloom_level, difficulty |-> difficulty + 1]
         ELSE [bloom_level |-> IF final_score > HIGH_THRESHOLD /\ bloom_level < MAX_BLOOM
                               THEN bloom_level + 1 ELSE bloom_level,
               difficulty |-> difficulty]
    ELSE [bloom_level |-> bloom_level,
          difficulty  |-> IF difficulty > MIN_LEVEL THEN difficulty - 1 ELSE difficulty]

\* Progression Policy: the next (bloom_level, difficulty) after a final_score
advance(bloom_level, difficulty, final_score) ==
    IF final_score > HIGH_THRESHOLD
    THEN IF difficulty < MAX_DIFFICULTY
         THEN [bloom_level |-> bloom_level, difficulty |-> difficulty + 1]
         ELSE [bloom_level |-> IF bloom_level < MAX_BLOOM THEN bloom_level + 1
                               ELSE bloom_level,
               difficulty |-> difficulty]
    ELSE IF final_score < LOW_THRESHOLD
    THEN [bloom_level |-> bloom_level,
          difficulty  |-> IF difficulty > MIN_LEVEL THEN difficulty - 1 ELSE difficulty]
    ELSE [bloom_level |-> bloom_level, difficulty |-> difficulty]

\* Termination (spec.md 4.2): question_number, after the increment, would
\* exceed max_questions
should_finish(question_number, max_questions) == question_number + 1 > max_questions

\* score_response(session, response_data) with the judge answering j at time t
\* (spec.md 4.1 side effects, then the policy of 4.2): record the evaluation,
\* set last_misconception, clear current_question, move the levels, and either
\* finish or advance the counter to the next question. The counter is advanced
\* here and not by the selector: start() selects the first question on a
\* counter that reset() has put at 1, and spec.md 3 and 8 keep len(history) =
\* question_number - 1 and question_number <= max_questions
score_response(s, j, t) ==
    LET e  == Evaluate(j)
        s1 == record_evaluation(s, e, t)
        a  == advance(s.bloom_level, s.difficulty, e.final_score)
    IN  IF should_finish(s.question_number, s.max_questions)
        THEN [s1 EXCEPT !.last_misconception = e.misconception,
                        !.current_question   = NoQuestion,
                        !.bloom_level        = a.bloom_level,
                        !.difficulty         = a.difficulty,
                        !.finished           = TRUE]
        ELSE [s1 EXCEPT !.last_misconception = e.misconception,
                        !.current_question   = NoQuestion,
                        !.bloom_level        = a.bloom_level,
                        !.difficulty         = a.difficulty,
                        !.question_number    = @ + 1]

\* Question Selector: the question found at the session's coordinate
select(s) == [bloom_level |-> s.bloom_level, difficulty |-> s.difficulty]

\* next_question(session): found = the bank has content at or near the
\* coordinate, then current_question is set; otherwise Exhausted (returns
\* None) and the record is left as it is
next_question(s, found) ==
    IF found THEN [s EXCEPT !.current_question = select(s)] ELSE s

\* ------------------------------------------------------------------ app.py
Response(handler, status, detail, session_id, finished, question, summ) ==
    [handler |-> handler, status |-> status, detail |-> detail,
     session_id |-> session_id, finished |-> finished,
     question |-> question, summary |-> summ]

HTTPException(handler, status, detail, session_id) ==
    Response(handler, status, detail, session_id, FALSE, NoQuestion, NoSummary)

NoResponse == Response("", 0, "", 0, FALSE, NoQuestion, NoSummary)

Init ==
    /\ sess = <<>>
    /\ SESSIONS = {}
    /\ now = 0
    /\ pc = [t \in Threads |-> "idle"]
    /\ req = [t \in Threads |-> 0]
    /\ resp = NoResponse
    /\ sweep = [pc |-> "sleep", expired |-> <<>>]
    /\ workers \in {{1}, Threads}
    /\ answered = <<>>

\* GET /start, the constructor given max_questions (the handler passes none,
\* which is MAX_QUESTIONS); the new uuid is the next index of sess
start(max_questions, found) ==
    /\ Len(sess) + 1 \in Uuids
    /\ IF ~ValidMaxQuestions(max_questions)
       THEN \* ValueError from __init__, caught by "except Exception"
            /\ resp' = HTTPException("start", 500, "Error starting assessment", 0)
            /\ UNCHANGED <<sess, SESSIONS, answered>>
       ELSE LET session_id == Len(sess) + 1
                session    == reset(max_questions, now)
            IN  /\ SESSIONS' = SESSIONS \cup {session_id}
                /\ sess' = Append(sess, next_question(session, found))
                /\ answered' = Append(answered, 0)
                /\ resp' =
                      IF found
                      THEN Response("start", 200, "", session_id, FALSE,
                                    select(session), NoSummary)
                      ELSE HTTPException("start", 500,
                                         "Failed to load initial question", session_id)
    /\ UNCHANGED <<now, pc, req, sweep, workers>>

\* answer() without the check of session.finished
answer_begin_no_finished_check(t, session_id) ==
    /\ t \in workers
    /\ pc[t] = "idle"
    /\ IF session_id \notin SESSIONS
       THEN /\ resp' = HTTPException("answer", 404, "Session not found", session_id)
            /\ UNCHANGED <<sess, pc, req>>
       ELSE /\ sess' = [sess EXCEPT ![session_id].last_activity = now]
            /\ IF sess[session_id].current_question = NoQuestion
               THEN /\ resp' = HTTPException("answer", 400, "No active question",
                                             session_id)
                    /\ UNCHANGED <<pc, req>>
               ELSE /\ pc' = [pc EXCEPT ![t] = "judging"]
                    /\ req' = [req EXCEPT ![t] = session_id]
                    /\ resp' = NoResponse
    /\ UNCHANGED <<SESSIONS, now, sweep, answered, workers>>

\* answer() without the check of session.current_question
answer_begin_no_question_check(t, session_id) ==
    /\ t \in workers
    /\ pc[t] = "idle"
    /\ IF session_id \notin SESSIONS
       THEN /\ resp' = HTTPException("answer", 404, "Session not found", session_id)
            /\ UNCHANGED <<sess, pc, req>>
       ELSE /\ sess' = [sess EXCEPT ![session_id].last_activity = now]
            /\ IF sess[session_id].finished
               THEN /\ resp' = HTTPException("answer", 400,
                                             "Assessment already completed", session_id)
                    /\ UNCHANGED <<pc, req>>
               ELSE /\ pc' = [pc EXCEPT ![t] = "judging"]
                    /\ req' = [req EXCEPT ![t] = session_id]
                    /\ resp' = NoResponse
    /\ UNCHANGED <<SESSIONS, now, sweep, answered, workers>>

\* POST /answer, lines 139-154: look the session up, refresh last_activity,
\* reject a finished session or one without a pending question
answer_begin(t, session_id) ==
    /\ t \in workers
    /\ pc[t] = "idle"
    /\ IF session_id \notin SESSIONS
       THEN /\ resp' = HTTPException("answer", 404, "Session not found", session_id)
            /\ UNCHANGED <<sess, pc, req>>
       ELSE /\ sess' = [sess EXCEPT ![session_id].last_activity = now]
            /\ IF sess[session_id].finished
               THEN /\ resp' = HTTPException("answer", 400,
                                             "Assessment already completed", session_id)
                    /\ UNCHANGED <<pc, req>>
               ELSE IF sess[session_id].current_question = NoQuestion
               THEN /\ resp' = HTTPException("answer", 400, "No active question",
                                             session_id)
                    /\ UNCHANGED <<pc, req>>
               ELSE /\ pc' = [pc EXCEPT ![t] = "judging"]
                    /\ req' = [req EXCEPT ![t] = session_id]
                    /\ resp' = NoResponse
    /\ UNCHANGED <<SESSIONS, now, sweep, answered, workers>>

RECURSIVE Total(_)
Total(counts) == IF counts = <<>> THEN 0 ELSE Head(counts) + Total(Tail(counts))

\* line 161, the judge answers: score_response records the evaluation (a
\* request already past the checks of lines 147-154 is scored whatever the
\* session has become meanwhile)
answer_score(t, j) ==
    /\ t \in workers
    /\ pc[t] = "judging"
    /\ sess[req[t]].finished \/ Total(answered) < MaxAnswers
    /\ sess' = [sess EXCEPT ![req[t]] = score_response(@, j, now)]
    /\ answered' = [answered EXCEPT ![req[t]] = @ + 1]
    /\ pc' = [pc EXCEPT ![t] = "scored"]
    /\ resp' = NoResponse
    /\ UNCHANGED <<SESSIONS, now, req, sweep, workers>>

\* the failure path dropping the pending question
answer_judge_failed_clears_question(t) ==
    /\ t \in workers
    /\ pc[t] = "judging"
    /\ resp' = HTTPException("answer", 500, "Error processing answer", req[t])
    /\ pc' = [pc EXCEPT ![t] = "idle"]
    /\ req' = [req EXCEPT ![t] = 0]
    /\ sess' = [sess EXCEPT ![req[t]].current_question = NoQuestion]
    /\ UNCHANGED <<SESSIONS, now, sweep, answered, workers>>

\* line 161, the judge call fails: score_response raises, lines 187-189 answer 500
answer_judge_failed(t) ==
    /\ t \in workers
    /\ pc[t] = "judging"
    /\ resp' = HTTPException("answer", 500, "Error processing answer", req[t])
    /\ pc' = [pc EXCEPT ![t] = "idle"]
    /\ req' = [req EXCEPT ![t] = 0]
    /\ UNCHANGED <<sess, SESSIONS, now, sweep, answered, workers>>

\* the completion of answer() without the del of line 170
answer_finish_keeps_session(t, found) ==
    /\ t \in workers
    /\ pc[t] = "scored"
    /\ pc' = [pc EXCEPT ![t] = "idle"]
    /\ req' = [req EXCEPT ![t] = 0]
    /\ IF sess[req[t]].finished
       THEN /\ resp' = Response("answer", 200, "", req[t], TRUE, NoQuestion,
                                summary(sess[req[t]]))
            /\ UNCHANGED <<sess, SESSIONS>>
       ELSE /\ sess' = [sess EXCEPT ![req[t]] = next_question(@, found)]
            /\ resp' = Response("answer", 200, "", req[t], FALSE,
                                IF found THEN select(sess[req[t]]) ELSE NoQuestion,
                                NoSummary)
            /\ UNCHANGED SESSIONS
    /\ UNCHANGED <<now, sweep, answered, workers>>

\* lines 166-183: the summary and the removal of a finished session, or the
\* next question; del SESSIONS[id] of an id already removed raises KeyError
answer_finish(t, found) ==
    /\ t \in workers
    /\ pc[t] = "scored"
    /\ pc' = [pc EXCEPT ![t] = "idle"]
    /\ req' = [req EXCEPT ![t] = 0]
    /\ IF sess[req[t]].finished
       THEN IF req[t] \in SESSIONS
            THEN /\ SESSIONS' = SESSIONS \ {req[t]}
                 /\ resp' = Response("answer", 200, "", req[t], TRUE, NoQuestion,
                                     summary(sess[req[t]]))
                 /\ UNCHANGED sess
            ELSE /\ resp' = HTTPException("answer", 500, "Error processing answer",
                                          req[t])
                 /\ UNCHANGED <<sess, SESSIONS>>
       ELSE /\ sess' = [sess EXCEPT ![req[t]] = next_question(@, found)]
            /\ resp' = Response("answer", 200, "", req[t], FALSE,
                                IF found THEN select(sess[req[t]]) ELSE NoQuestion,
                                NoSummary)
            /\ UNCHANGED SESSIONS
    /\ UNCHANGED <<now, sweep, answered, workers>>

\* GET /session/{session_id}: the response, the state is only read
get_session_status(session_id) ==
    IF session_id \notin SESSIONS
    THEN [status |-> 404, detail |-> "Session not found", question_number |-> 0,
          max_questions |-> 0, bloom_level |-> 0, difficulty |-> 0, finished |-> FALSE]
    ELSE [status |-> 200, detail |-> "",
          question_number |-> sess[session_id].question_number,
          max_questions   |-> sess[session_id].max_questions,
          bloom_level     |-> sess[session_id].bloom_level,
          difficulty      |-> sess[session_id].difficulty,
          finished        |-> sess[session_id].finished]

\* DELETE /session/{session_id}
end_session(session_id) ==
    /\ session_id \in SESSIONS
    /\ SESSIONS' = SESSIONS \ {session_id}
    /\ resp' = NoResponse
    /\ UNCHANGED <<sess, now, pc, req, sweep, answered, workers>>

\* line 66: current_time - session.last_activity > timedelta(hours=1), the
\* difference being a number of two-hour ticks
is_expired(last_activity, current_time) ==
    2 * (current_time - last_activity) > EXPIRY_HOURS

\* cleanup_expired_sessions, lines 63-67: the list of expired ids, in dict order
RECURSIVE ExpiredFrom(_)
ExpiredFrom(sid) ==
    IF sid > Len(sess) THEN <<>>
    ELSE (IF sid \in SESSIONS /\ is_expired(sess[sid].last_activity, now)
          THEN <<sid>> ELSE <<>>) \o ExpiredFrom(sid + 1)

\* with nothing expired the loop of lines 68-70 has no iteration
cleanup_scan ==
    /\ sweep.pc = "sleep"
    /\ sweep' = [pc |-> IF ExpiredFrom(1) = <<>> THEN "sleep" ELSE "delete",
                 expired |-> ExpiredFrom(1)]
    /\ resp' = NoResponse
    /\ UNCHANGED <<sess, SESSIONS, now, pc, req, answered, workers>>

\* lines 68-75: del of each listed id; a KeyError ends the loop (except Exception)
RECURSIVE DeleteAll(_, _)
DeleteAll(registry, expired) ==
    IF expired = <<>> THEN registry
    ELSE IF Head(expired) \notin registry THEN registry
    ELSE DeleteAll(registry \ {Head(expired)}, Tail(expired))

cleanup_delete ==
    /\ sweep.pc = "delete"
    /\ SESSIONS' = DeleteAll(SESSIONS, sweep.expired)
    /\ sweep' = [pc |-> "sleep", expired |-> <<>>]
    /\ resp' = NoResponse
    /\ UNCHANGED <<sess, now, pc, req, answered, workers>>

\* the clock
Tick ==
    /\ now < MaxTime
    /\ now' = now + 1
    /\ resp' = NoResponse
    /\ UNCHANGED <<sess, SESSIONS, pc, req, sweep, answered, workers>>

Next ==
    \/ \E n \in QuestionArgs, found \in BOOLEAN : start(n, found)
    \/ \E t \in Threads, sid \in Uuids : answer_begin(t, sid)
    \/ \E t \in Threads, j \in JudgeOutputs : answer_score(t, j)
    \/ \E t \in Threads : answer_judge_failed(t)
    \/ \E t \in Threads, found \in BOOLEAN : answer_finish(t, found)
    \/ \E sid \in Uuids : end_session(sid)
    \/ cleanup_scan
    \/ cleanup_delete
    \/ Tick

Spec == Init /\ [][Next]_vars

\* ------------------------------------- the session record used on its own
\* A SessionState object driven through its own methods: evaluations are
\* recorded one by one and summary() is called at any point.
Evaluations == {Evaluate(j) : j \in JudgeOutputs}

SummaryInit ==
    /\ sess = <<reset(MAX_QUESTIONS, 0)>>
    /\ SESSIONS = {}
    /\ now = 0
    /\ pc = [t \in Threads |-> "idle"]
    /\ req = [t \in Threads |-> 0]
    /\ resp = NoResponse
    /\ sweep = [pc |-> "sleep", expired |-> <<>>]
    /\ workers = {1}
    /\ answered = <<0>>

\* session.record_evaluation(e)
call_record_evaluation(e) ==
    /\ Len(sess[1].history) < MaxAnswers
    /\ sess' = [sess EXCEPT ![1] = record_evaluation(@, e, now)]
    /\ answered' = [answered EXCEPT ![1] = @ + 1]
    /\ resp' = NoResponse
    /\ UNCHANGED <<SESSIONS, now, pc, req, sweep, workers>>

\* session.summary(): the returned dictionary
call_summary ==
    /\ resp' = Response("summary", 200, "", 1, sess[1].finished, NoQuestion,
                        summary(sess[1]))
    /\ UNCHANGED <<sess, SESSIONS, now, pc, req, sweep, workers, answered>>

SummaryNext ==
    \/ \E e \in Evaluations : call_record_evaluation(e)
    \/ call_summary

SummarySpec == SummaryInit /\ [][SummaryNext]_vars

\* ------------------------------------------------------------------ claims
Sessions == DOMAIN sess

\* the evaluation recorded last
Recorded(s) == s.history[Len(s.history)]

\* the fields of a session record other than last_activity
Core(s) == [s EXCEPT !.last_activity = 0]

\* C1: finished is true exactly from the N-th recorded evaluation on (N =
\* max_questions): false while history holds fewer than N records, whatever
\* the scores, and the step that sets it leaves exactly N records.
C1_FinishedAtNth ==
    /\ [](\A s \in Sessions :
            sess[s].finished <=> Len(sess[s].history) >= sess[s].max_questions)
    /\ [][\A s \in Sessions :
            (~sess[s].finished /\ sess'[s].finished) =>
                Len(sess'[s].history) = sess[s].max_questions]_vars

\* a session finished by its 5th evaluation, low and middle scores among them
C1_Witness ==
    \E s \in Sessions :
        /\ sess[s].finished
        /\ Len(sess[s].history) = sess[s].max_questions
        /\ \E i, k \in 1..Len(sess[s].history) :
              /\ sess[s].history[i].final_score < LOW_THRESHOLD
              /\ sess[s].history[k].final_score > HIGH_THRESHOLD

C3_LevelsInBounds ==
    \A s \in Sessions :
        /\ sess[s].bloom_level \in MIN_LEVEL .. MAX_BLOOM
        /\ sess[s].difficulty \in MIN_LEVEL .. MAX_DIFFICULTY
        /\ sess[s].history = <<>> => sess[s].bloom_level = 1 /\ sess[s].difficulty = 1
        /\ s \in SESSIONS =>
              /\ get_session_status(s).bloom_level \in MIN_LEVEL .. MAX_BLOOM
              /\ get_session_status(s).difficulty \in MIN_LEVEL .. MAX_DIFFICULTY

C3_Witness ==
    \E s \in Sessions :
        /\ sess[s].bloom_level = MAX_BLOOM
        /\ sess[s].difficulty = MAX_DIFFICULTY
        /\ Len(sess[s].history) = 5
        /\ \A i \in 1 .. 5 : sess[s].history[i].final_score > HIGH_THRESHOLD

\* C4: an evaluation above the high threshold raises difficulty by one and
\* keeps bloom_level when difficulty is below its maximum, and raises
\* bloom_level by one (clamped at its maximum) and keeps difficulty when
\* difficulty is at its maximum; no step raises bloom_level from a state where
\* difficulty is below its maximum.
C4_HighScoreStep ==
    [][/\ \A t \in Threads :
             (/\ pc[t] = "judging" /\ pc'[t] = "scored"
              /\ Recorded(sess'[req[t]]).final_score > HIGH_THRESHOLD) =>
                LET old == sess[req[t]]
                    new == sess'[req[t]]
                IN  IF old.difficulty < MAX_DIFFICULTY
                    THEN /\ new.difficulty = old.difficulty + 1
                         /\ new.bloom_level = old.bloom_level
                    ELSE /\ new.difficulty = old.difficulty
                         /\ new.bloom_level =
                               IF old.bloom_level + 1 <= MAX_BLOOM
                               THEN old.bloom_level + 1 ELSE MAX_BLOOM
       /\ \A s \in Sessions :
             sess[s].difficulty < MAX_DIFFICULTY
                => sess'[s].bloom_level <= sess[s].bloom_level]_vars

\* high scores have saturated difficulty, then raised bloom_level to its
\* maximum, and one more has arrived
C4_Witness ==
    \E s \in Sessions :
        /\ Len(sess[s].history) = MAX_DIFFICULTY + MAX_BLOOM - 1
        /\ \A i \in DOMAIN sess[s].history :
              sess[s].history[i].final_score > HIGH_THRESHOLD
        /\ sess[s].difficulty = MAX_DIFFICULTY
        /\ sess[s].bloom_level = MAX_BLOOM

\* C5: bloom_level never decreases; an evaluation below the low threshold
\* lowers difficulty by one, clamped at the minimum, and keeps bloom_level,
\* also when difficulty is already at its minimum.
C5_BloomNeverDecreases ==
    [][/\ \A s \in Sessions : sess'[s].bloom_level >= sess[s].bloom_level
       /\ \A t \in Threads :
             (/\ pc[t] = "judging" /\ pc'[t] = "scored"
              /\ Recorded(sess'[req[t]]).final_score < LOW_THRESHOLD) =>
                LET old == sess[req[t]]
                    new == sess'[req[t]]
                IN  /\ new.bloom_level = old.bloom_level
                    /\ new.difficulty =
                          IF old.difficulty - 1 >= MIN_LEVEL
                          THEN old.difficulty - 1 ELSE MIN_LEVEL]_vars

\* at bloom_level 2 a low score has taken difficulty to its minimum and a
\* second low score has arrived there
C5_Witness ==
    \E s \in Sessions :
        /\ Len(sess[s].history) = 4
        /\ sess[s].history[1].final_score > HIGH_THRESHOLD
        /\ sess[s].history[2].final_score > HIGH_THRESHOLD
        /\ sess[s].history[3].final_score < LOW_THRESHOLD
        /\ sess[s].history[4].final_score < LOW_THRESHOLD
        /\ sess[s].bloom_level = 2
        /\ sess[s].difficulty = MIN_LEVEL

\* C6: answer() on a registered session whose finished flag is true is rejected
\* with 400 "Assessment already completed", goes no further and leaves history
\* unchanged.
C6_FinishedRejected ==
    [][\A t \in Threads, sid \in Uuids :
          (answer_begin(t, sid) /\ sid \in SESSIONS /\ sess[sid].finished) =>
             /\ resp'.status = 400
             /\ resp'.detail = "Assessment already completed"
             /\ pc'[t] = "idle"
             /\ sess'[sid].history = sess[sid].history]_vars

C6_Witness ==
    /\ resp.handler = "answer"
    /\ resp.detail = "Assessment already completed"
    /\ \E s \in Sessions : sess[s].finished /\ s \in SESSIONS

\* C7: when the judge call fails, answer() fails (500 "Error processing
\* answer") and no step of the request has changed history, bloom_level,
\* difficulty, current_question, question_number or finished: the pending
\* question is still there for a retry.
C7_JudgeFailureLeavesState ==
    [][\A t \in Threads :
          /\ answer_judge_failed(t) =>
                /\ resp'.status = 500
                /\ sess' = sess
          /\ (pc[t] = "idle" /\ pc'[t] = "judging") =>
                Core(sess'[req'[t]]) = Core(sess[req'[t]])]_vars

C7_Witness ==
    /\ resp.handler = "answer"
    /\ resp.status = 500
    /\ \E s \in Sessions :
          /\ s = resp.session_id
          /\ ~sess[s].finished
          /\ sess[s].current_question # NoQuestion
          /\ Len(sess[s].history) = 2

\* C8: the constructor accepts max_questions iff 5 <= max_questions <= 15:
\* then the new record has that max_questions, bloom_level = 1, difficulty = 1,
\* question_number = 1, finished = false and an empty history; otherwise the
\* call fails and no session record is created or registered.
C8_CreateSession ==
    [][\A n \in QuestionArgs, found \in BOOLEAN :
          start(n, found) =>
             IF 5 <= n /\ n <= 15
             THEN /\ Len(sess') = Len(sess) + 1
                  /\ LET new == sess'[Len(sess')]
                     IN  /\ new.max_questions = n
                         /\ new.bloom_level = 1
                         /\ new.difficulty = 1
                         /\ new.question_number = 1
                         /\ new.finished = FALSE
                         /\ new.history = <<>>
             ELSE /\ sess' = sess
                  /\ SESSIONS' = SESSIONS
                  /\ resp'.status = 500
                  /\ resp'.detail = "Error starting assessment"]_vars

C8_Witness ==
    /\ resp.handler = "start"
    /\ resp.detail = "Error starting assessment"
    /\ sess = <<>>

\* C9 as stated: when the Question Selector reports Exhausted, on the first
\* question or after an accepted answer, the session is finalized:
\* finished = true and no next question.
C9_ExhaustedFinalizes ==
    /\ (resp.handler = "start" /\ resp.detail = "Failed to load initial question")
          => sess[resp.session_id].finished
    /\ (resp.handler = "answer" /\ resp.status = 200 /\ resp.question = NoQuestion)
          => resp.finished /\ sess[resp.session_id].finished

C11_FinishedIsFinal ==
    [][\A s \in Sessions :
          sess[s].finished =>
             /\ sess'[s].finished
             /\ sess'[s].bloom_level = sess[s].bloom_level
             /\ sess'[s].difficulty = sess[s].difficulty
             /\ sess'[s].current_question = sess[s].current_question
             /\ sess'[s].history = sess[s].history]_vars

IsPrefix(h, g) == Len(h) <= Len(g) /\ SubSeq(g, 1, Len(h)) = h

C13_SummaryEmpty ==
    (resp.handler = "summary" /\ sess[resp.session_id].history = <<>>) =>
        /\ resp.summary.final_score = <<0, 1>>
        /\ resp.summary.average_accuracy = <<0, 1>>
        /\ resp.summary.average_explanation = <<0, 1>>
        /\ resp.summary.responses = <<>>

C13_Witness ==
    /\ resp.handler = "summary"
    /\ sess[resp.session_id].history = <<>>

\* the sum of field f over records 1..n of h
RECURSIVE SumUpTo(_, _, _)
SumUpTo(h, f, n) == IF n = 0 THEN 0 ELSE SumUpTo(h, f, n - 1) + h[n][f]

\* C14: for a non-empty history of N records summary() returns the sums of
\* final_score, accuracy and explanation_score divided by N, and the whole
\* history in its recorded order as responses.
C14_SummaryMeans ==
    (resp.handler = "summary" /\ sess[resp.session_id].history # <<>>) =>
        LET h == sess[resp.session_id].history
            N == Len(h)
        IN  /\ resp.summary.final_score = <<SumUpTo(h, "final_score", N), N>>
            /\ resp.summary.average_accuracy = <<SumUpTo(h, "accuracy", N), N>>
            /\ resp.summary.average_explanation =
                   <<SumUpTo(h, "explanation_score", N), N>>
            /\ Len(resp.summary.responses) = N
            /\ \A i \in 1..N : resp.summary.responses[i] = h[i]

\* the summary of three records of different scores
C14_Witness ==
    /\ resp.handler = "summary"
    /\ Len(resp.summary.responses) = 3
    /\ resp.summary.responses[1].final_score > HIGH_THRESHOLD
    /\ resp.summary.responses[2].final_score < LOW_THRESHOLD
    /\ resp.summary.final_score[1] > 0
    /\ resp.summary.final_score[2] = 3

\* C15: answer() on a registered, unfinished session without a pending
\* question is rejected with 400 "No active question", does not reach the
\* judge, and leaves history, bloom_level, difficulty, question_number and
\* finished unchanged.
C15_NoActiveQuestion ==
    [][\A t \in Threads, sid \in Uuids :
          (/\ answer_begin(t, sid)
           /\ sid \in SESSIONS
           /\ ~sess[sid].finished
           /\ sess[sid].current_question = NoQuestion) =>
             /\ resp'.status = 400
             /\ resp'.detail = "No active question"
             /\ pc'[t] = "idle"
             /\ Core(sess'[sid]) = Core(sess[sid])]_vars

\* the rejection, on a session with two answers and no next question
C15_Witness ==
    /\ resp.handler = "answer"
    /\ resp.detail = "No active question"
    /\ \E s \in Sessions :
          /\ s = resp.session_id
          /\ ~sess[s].finished
          /\ sess[s].current_question = NoQuestion
          /\ Len(sess[s].history) = 2

\* C16: an evaluation whose final_score is neither above the high threshold
\* nor below the low threshold leaves bloom_level and difficulty unchanged.
C16_MiddleBandHolds ==
    [][\A t \in Threads :
          (/\ pc[t] = "judging" /\ pc'[t] = "scored"
           /\ Recorded(sess'[req[t]]).final_score <= HIGH_THRESHOLD
           /\ Recorded(sess'[req[t]]).final_score >= LOW_THRESHOLD) =>
             /\ sess'[req[t]].bloom_level = sess[req[t]].bloom_level
             /\ sess'[req[t]].difficulty = sess[req[t]].difficulty]_vars

\* a middle score after a high and a low one: difficulty stays at its floor
C16_Witness ==
    \E s \in Sessions :
        /\ Len(sess[s].history) = 3
        /\ sess[s].history[1].final_score > HIGH_THRESHOLD
        /\ sess[s].history[2].final_score < LOW_THRESHOLD
        /\ sess[s].history[3].final_score >= LOW_THRESHOLD
        /\ sess[s].history[3].final_score <= HIGH_THRESHOLD
        /\ sess[s].bloom_level = MIN_LEVEL
        /\ sess[s].difficulty = MIN_LEVEL
        /\ \E t \in Threads : pc[t] = "scored" /\ req[t] = s

\* requests of session s that are inside answer(), past the checks
InFlight(s) == {t \in Threads : pc[t] # "idle" /\ req[t] = s}

\* C17 as stated: the check, evaluation and progression steps of two /answer
\* requests for one session are never interleaved, so each pending question
\* produces at most one history record: an evaluation is recorded only while
\* the question it answers is still pending and no other request of the
\* session is inside answer().
C17_OneMutationInFlight ==
    [][\A t \in Threads :
          (pc[t] = "judging" /\ pc'[t] = "scored") =>
             /\ sess[req[t]].current_question # NoQuestion
             /\ InFlight(req[t]) = {t}]_vars

\* C18: a registered session with no /answer request in flight is not
\* finished; a finished session whose requests have returned is not
\* registered, and /answer and the status request report "Session not found".
C18_RegistryUnfinished ==
    /\ [](\A s \in Sessions :
            (sess[s].finished /\ InFlight(s) = {}) =>
               /\ s \notin SESSIONS
               /\ get_session_status(s).status = 404
               /\ get_session_status(s).detail = "Session not found")
    /\ [][\A t \in Threads, s \in Uuids :
            (/\ answer_begin(t, s)
             /\ s \in Sessions
             /\ sess[s].finished
             /\ InFlight(s) = {}) =>
               /\ resp'.status = 404
               /\ resp'.detail = "Session not found"]_vars

\* a finished session, its request returned, asked for again
C18_Witness ==
    /\ resp.handler = "answer"
    /\ resp.detail = "Session not found"
    /\ \E s \in Sessions :
          /\ s = resp.session_id
          /\ sess[s].finished
          /\ InFlight(s) = {}
          /\ Len(sess[s].history) = sess[s].max_questions

\* C19 as stated: the request whose evaluation finished the session returns
\* 200 with finished = true and the summary, whatever DELETE and the sweep
\* have done meanwhile (read with the /answer requests served one at a time,
\* so that only DELETE and the sweep run beside the request).
C19_FinishingAnswerReturns ==
    [][\A t \in Threads, found \in BOOLEAN :
          (/\ answer_finish(t, found)
           /\ workers = {1}
           /\ sess[req[t]].finished
           /\ Len(sess[req[t]].history) = sess[req[t]].max_questions
           /\ InFlight(req[t]) = {t}) =>
             /\ resp'.status = 200
             /\ resp'.finished
             /\ resp'.summary = summary(sess[req[t]])]_vars

\* C20 as stated: the sweep removes a session only if, at the moment of the
\* removal, its last_activity is more than one hour in the past.
C20_SweepRemovesOnlyExpired ==
    [][\A s \in SESSIONS :
          (cleanup_delete /\ s \notin SESSIONS') =>
             is_expired(sess[s].last_activity, now)]_vars

====
